---- MODULE Spec2Model ----
(***************************************************************************)
(* Model of src/ch08_pdf_ai_mod.py: a Streamlit script that converts an    *)
(* uploaded PDF to page images, sends them to a chat/vision model and      *)
(* exports the answers.                                                    *)
(*                                                                         *)
(* The module holds several specifications over one set of variables:      *)
(*   SpecText    the two context-window extraction functions               *)
(*   SpecExport  the three export functions                                *)
(*   SpecErr     the error-text classification of the except handlers      *)
(*   SpecRun     one run of analyze_images_with_gpt, call by call          *)
(*   Spec        the session state across reruns of main()                 *)
(* A specification leaves the variables of the others at their initial     *)
(* values.                                                                 *)
(***************************************************************************)
EXTENDS Integers, Sequences, FiniteSets, TLC

VARIABLES
    \* ---- SpecText: extract_context_for_next_page / extract_overlap_context
    t_pc,          \* "input" | "context" | "overlap"
    t_content,     \* the content argument: a string, as a sequence of characters
    t_max,         \* the max_length argument
    t_context,     \* value returned by extract_context_for_next_page
    t_start,       \* first value returned by extract_overlap_context
    t_end,         \* second value returned by extract_overlap_context
    \* ---- SpecExport: save_to_word / save_to_pdf / save_to_qmd
    e_pc,          \* "input" | "word" | "pdf" | "qmd"
    e_sections,    \* the **sections argument: a sequence of <<title, content>>
    e_out,         \* what was handed to the writer: elements, or lines of text
    e_ok,          \* the function's return value
    \* ---- SpecErr: the except handlers
    x_pc,          \* "input" | "single" | "batch" | "polish" | "validate"
    x_text,        \* str(e): the error text, a sequence of characters
    x_msgs,        \* the st.error / st.warning messages the handler showed
    x_ret,         \* validate_openai_api_key's return value
    \* ---- SpecRun: one run of analyze_images_with_gpt
    r_pc,          \* "idle" | "loop" | "wait_preview" | "page" | "wait_page" |
                   \* "joined" | "wait_polish" | "batch" | "wait_batch" | "done"
    r_args,        \* the arguments: client, number of images, their sizes,
                   \* process_separately
    r_i,           \* the loop index i (0-based)
    r_results,     \* results: one entry per page handled so far
    r_previous_context,
    r_next_page_start,
    r_failed_pages,
    r_final_result,
    r_ret,         \* the return value, None included
    r_calls,       \* every chat-completion call issued, in order, with its outcome
    r_msgs,        \* the st.error / st.warning / st.success messages, in order
    r_in_flight,   \* calls issued and not yet returned
    r_task,        \* the task of the run: "summary" or "translation"
    \* ---- Spec: st.session_state across reruns of main()
    ss_images,
    ss_base64_images,
    ss_page_number,
    ss_start_page,
    ss_end_page,
    ss_analysis_results,
    ss_last_analysis_done,
    ss_include_images,
    ss_temp_files,
    ss_api_key_validated,
    ss_client,
    ss_last_api_key,
    ss_last_file_hash,
    \* ---- Spec: the rerun of main() under way
    m_pc,          \* "idle" | "sidebar" | "pages" | "main" | "results" | "end"
    m_pdf_file,    \* the uploader's value
    m_mode,        \* the page selection radio's value
    m_reads,       \* indices used so far to read images / base64_images
    m_parts,       \* which of preview, selection, display have run
    m_clicked,     \* the analysis button was clicked
    m_ran,         \* the analysis was run (results was built)
    m_results,     \* the local results of the analysis run
    m_log,         \* what this rerun did to temporary files and stored results, in order
    m_openai_api_key,  \* the key field's value, used by lines 697-710 only
    m_validation,  \* what validate_openai_api_key returned there, if it was called
    \* ---- SpecCleanup: one call of cleanup_temp_files
    c_pc,          \* "idle" | "loop" | "done" | "raised"
    c_temp_paths,  \* the argument
    c_i,           \* paths of the list gone through so far
    c_fs,          \* what is on disk at each path: "file", "dir", "other" or "missing"
    c_warnings     \* the warnings shown: place in the list and exception

textVars == <<t_pc, t_content, t_max, t_context, t_start, t_end>>
exportVars == <<e_pc, e_sections, e_out, e_ok>>
errVars == <<x_pc, x_text, x_msgs, x_ret>>
runVars == <<r_pc, r_args, r_i, r_results, r_previous_context, r_next_page_start,
             r_failed_pages, r_final_result, r_ret, r_calls, r_msgs, r_in_flight, r_task>>

keyVars == <<ss_api_key_validated, ss_client, ss_last_api_key>>
docVars == <<ss_images, ss_base64_images, ss_temp_files, ss_last_file_hash>>
pageVars == <<ss_page_number, ss_start_page, ss_end_page>>
resultVars == <<ss_analysis_results, ss_last_analysis_done>>
sessionVars == <<keyVars, docVars, pageVars, resultVars, ss_include_images>>
mainVars == <<m_pc, m_pdf_file, m_mode, m_reads, m_parts, m_clicked, m_ran, m_results, m_log,
             m_openai_api_key, m_validation>>

cleanupVars == <<c_pc, c_temp_paths, c_i, c_fs, c_warnings>>

vars == <<textVars, exportVars, errVars, runVars, sessionVars, mainVars, cleanupVars>>

\* what an action of one specification leaves alone
TextOnly == UNCHANGED <<exportVars, errVars, runVars, sessionVars, mainVars, cleanupVars>>
ExportOnly == UNCHANGED <<textVars, errVars, runVars, sessionVars, mainVars, cleanupVars>>
ErrOnly == UNCHANGED <<textVars, exportVars, runVars, sessionVars, mainVars, cleanupVars>>
RunOnly == UNCHANGED <<textVars, exportVars, errVars, sessionVars, mainVars, cleanupVars>>
SessionOnly == UNCHANGED <<textVars, exportVars, errVars, runVars, cleanupVars>>
CleanupOnly == UNCHANGED <<textVars, exportVars, errVars, runVars, sessionVars, mainVars>>

(***************************************************************************)
(* Bounds of the model.                                                    *)
(***************************************************************************)
\* longest content string enumerated character by character
MaxLen == 5
\* largest small character budget enumerated (the budgets 300 and 800 the
\* program passes are enumerated besides)
MaxBudget == 4
\* most sections handed to an export function
MaxSections == 2
\* most fragments an enumerated error text is put together from
MaxFrags == 2
\* most page images handed to one run of analyze_images_with_gpt
MaxImages == 3
\* pages of the longest PDF uploaded
MaxPages == 3
\* longest list handed to cleanup_temp_files
MaxPaths == 3

(***************************************************************************)
(* Strings are sequences of one-character strings.                         *)
(***************************************************************************)
NL == "\n"
SP == " "

Min(a, b) == IF a < b THEN a ELSE b
Range(f) == {f[k] : k \in DOMAIN f}
Max(a, b) == IF a > b THEN a ELSE b

\* characters str.strip() removes at both ends
IsSpace(c) == c \in {SP, NL}

\* sequences over S of length at most n
SeqsUpTo(S, n) == UNION {[1..k -> S] : k \in 0..n}

RECURSIVE LStrip(_)
LStrip(s) ==
    IF s = <<>> THEN <<>>
    ELSE IF IsSpace(Head(s)) THEN LStrip(Tail(s)) ELSE s

RECURSIVE RStrip(_)
RStrip(s) ==
    IF s = <<>> THEN <<>>
    ELSE IF IsSpace(s[Len(s)]) THEN RStrip(SubSeq(s, 1, Len(s) - 1)) ELSE s

\* str.strip()
Strip(s) == RStrip(LStrip(s))

\* str.split('\n'): the pieces between newlines; n newlines give n+1 pieces
RECURSIVE SplitFrom(_, _, _)
SplitFrom(s, k, cur) ==
    IF k > Len(s) THEN <<cur>>
    ELSE IF s[k] = NL THEN <<cur>> \o SplitFrom(s, k + 1, <<>>)
    ELSE SplitFrom(s, k + 1, Append(cur, s[k]))

Split(s) == SplitFrom(s, 1, <<>>)

\* '\n'.join(lines)
RECURSIVE Join(_)
Join(ls) ==
    IF ls = <<>> THEN <<>>
    ELSE IF Len(ls) = 1 THEN ls[1]
    ELSE ls[1] \o <<NL>> \o Join(Tail(ls))

\* seq[-k:]
LastN(s, k) == SubSeq(s, Max(1, Len(s) - k + 1), Len(s))

\* seq[:k]
FirstN(s, k) == SubSeq(s, 1, Min(k, Len(s)))

(***************************************************************************)
(* extract_context_for_next_page (lines 93-110)                            *)
(***************************************************************************)
\* number of trailing lines looked at: lines[-10:]
TailLines == 10

\* current_length += len(line) + 1, without the separator: a bug that lets
\* the joined context outgrow the budget
CtxAdvanceNoSep(current_length, line) == current_length + Len(line)

\* current_length += len(line) + 1
CtxAdvance(current_length, line) == current_length + Len(line) + 1

\* elif current_length > 0: break
CtxStops(line, current_length) == current_length > 0

\* the loop over reversed(lines[-10:]); k is the index of the line looked at
RECURSIVE CtxLoop(_, _, _, _, _)
CtxLoop(lines, k, context_lines, current_length, max_length) ==
    IF k = 0 THEN context_lines
    ELSE LET line == Strip(lines[k]) IN
         IF line # <<>> /\ current_length + Len(line) < max_length
         THEN CtxLoop(lines, k - 1, <<line>> \o context_lines,
                      CtxAdvance(current_length, line), max_length)
         ELSE IF CtxStops(line, current_length)
              THEN context_lines
              ELSE CtxLoop(lines, k - 1, context_lines, current_length, max_length)

extract_context_for_next_page(content, max_length) ==
    IF content = <<>> THEN <<>>
    ELSE LET lines == LastN(Split(content), TailLines)
         IN  Strip(Join(CtxLoop(lines, Len(lines), <<>>, 0, max_length)))

(***************************************************************************)
(* extract_overlap_context (lines 112-143)                                 *)
(***************************************************************************)
\* number of leading / trailing non-empty lines looked at: [:5] and [-5:]
OverlapLines == 5

\* non_empty_lines = [line.strip() for line in lines if line.strip()]
RECURSIVE NonEmptyStripped(_)
NonEmptyStripped(lines) ==
    IF lines = <<>> THEN <<>>
    ELSE LET l == Strip(Head(lines)) IN
         IF l # <<>> THEN <<l>> \o NonEmptyStripped(Tail(lines))
         ELSE NonEmptyStripped(Tail(lines))

\* the first loop: for line in non_empty_lines[:5]
RECURSIVE StartLoop(_, _, _, _, _)
StartLoop(ls, k, start_context, start_length, max_length) ==
    IF k > Len(ls) THEN start_context
    ELSE IF start_length + Len(ls[k]) < max_length
         THEN StartLoop(ls, k + 1, Append(start_context, ls[k]),
                        start_length + Len(ls[k]), max_length)
         ELSE start_context

\* the second loop: for line in reversed(non_empty_lines[-5:])
RECURSIVE EndLoop(_, _, _, _, _)
EndLoop(ls, k, end_context, end_length, max_length) ==
    IF k = 0 THEN end_context
    ELSE IF end_length + Len(ls[k]) < max_length
         THEN EndLoop(ls, k - 1, <<ls[k]>> \o end_context,
                      end_length + Len(ls[k]), max_length)
         ELSE end_context

\* returns the pair <<start context, end context>>
extract_overlap_context(content, max_length) ==
    IF content = <<>> THEN <<(<<>>), (<<>>)>>
    ELSE LET non_empty_lines == NonEmptyStripped(Split(content)) IN
         IF non_empty_lines = <<>> THEN <<(<<>>), (<<>>)>>
         ELSE LET first == FirstN(non_empty_lines, OverlapLines)
                  last  == LastN(non_empty_lines, OverlapLines)
              IN  << Join(StartLoop(first, 1, <<>>, 0, max_length)),
                     Join(EndLoop(last, Len(last), <<>>, 0, max_length)) >>

(***************************************************************************)
(* SpecText: the two functions applied to enumerated inputs.               *)
(***************************************************************************)
\* the budgets the program passes: extract_context_for_next_page(result, 800)
\* and extract_overlap_context(next_preview, 300)
ContextBudget == 800
OverlapBudget == 300

Alphabet == {"a", "b", SP, NL}

\* a content of n lines "a" below one line "b": longer than the 10-line tail
RECURSIVE Repeat(_, _)
Repeat(x, n) == IF n = 0 THEN <<>> ELSE <<x>> \o Repeat(x, n - 1)

LongContents ==
    { Join(<<(<<"b">>)>> \o Repeat(<<"a">>, n)) : n \in {TailLines - 1, TailLines, TailLines + 1} }

Contents == SeqsUpTo(Alphabet, MaxLen) \cup LongContents

Budgets == (1..MaxBudget) \cup {OverlapBudget, ContextBudget}

TextIdle ==
    /\ t_pc = "input"
    /\ t_content = <<>>
    /\ t_max = 1
    /\ t_context = <<>>
    /\ t_start = <<>>
    /\ t_end = <<>>

TextStart ==
    /\ t_pc = "input"
    /\ t_content \in Contents
    /\ t_max \in Budgets
    /\ t_context = <<>>
    /\ t_start = <<>>
    /\ t_end = <<>>

ExtractContext ==
    /\ t_pc = "input"
    /\ t_context' = extract_context_for_next_page(t_content, t_max)
    /\ t_pc' = "context"
    /\ UNCHANGED <<t_content, t_max, t_start, t_end>>
    /\ TextOnly

ExtractOverlap ==
    /\ t_pc = "input"
    /\ t_start' = extract_overlap_context(t_content, t_max)[1]
    /\ t_end' = extract_overlap_context(t_content, t_max)[2]
    /\ t_pc' = "overlap"
    /\ UNCHANGED <<t_content, t_max, t_context>>
    /\ TextOnly

TextNext == ExtractContext \/ ExtractOverlap

(***************************************************************************)
(* The export functions (lines 468-658).  A document is the sequence of    *)
(* elements handed to the library; a title is a short string; the fixed    *)
(* Korean message texts are single tokens.                                 *)
(***************************************************************************)
\* "내용이 없습니다." of the placeholder messages
NoContentMsg == "(no content)"

\* content and content.strip()
HasContent(content) == content # <<>> /\ Strip(content) # <<>>

StartsWith(s, prefix) ==
    Len(s) >= Len(prefix) /\ SubSeq(s, 1, Len(prefix)) = prefix

\* str.replace(pat, ''): every occurrence removed, left to right
RECURSIVE Remove(_, _)
Remove(s, pat) ==
    IF Len(s) < Len(pat) THEN s
    ELSE IF SubSeq(s, 1, Len(pat)) = pat
         THEN Remove(SubSeq(s, Len(pat) + 1, Len(s)), pat)
         ELSE <<Head(s)>> \o Remove(Tail(s), pat)

\* the section is not the last item: (title, content) != sections_list[-1]
NotLast(sections, k) == sections[k] # sections[Len(sections)]

\* ---- save_to_word (lines 507-552)
WordHeading(text, level) == [el |-> "heading", level |-> level, text |-> text]
WordParagraph(text) == [el |-> "paragraph", text |-> text]

\* one line of a non-empty section (lines 520-538)
WordLine(line) ==
    LET line_stripped == Strip(line) IN
    IF line_stripped = <<>> THEN WordParagraph(<<>>)
    ELSE IF StartsWith(line_stripped, <<"#", "#", "#">>)
         THEN WordHeading(Strip(Remove(line_stripped, <<"#", "#", "#">>)), 3)
    ELSE IF StartsWith(line_stripped, <<"#", "#">>)
         THEN WordHeading(Strip(Remove(line_stripped, <<"#", "#">>)), 2)
    ELSE IF StartsWith(line_stripped, <<"#">>)
         THEN WordHeading(Strip(Remove(line_stripped, <<"#">>)), 2)
    ELSE WordParagraph(line_stripped)

\* the body of a section (lines 516-541)
WordBody(title, content) ==
    IF HasContent(content)
    THEN LET lines == Split(content) IN [k \in 1..Len(lines) |-> WordLine(lines[k])]
    ELSE << WordParagraph(<<"[">> \o title \o <<"]", SP, NoContentMsg>>) >>

RECURSIVE WordSections(_, _)
WordSections(sections, k) ==
    IF k > Len(sections) THEN <<>>
    ELSE <<WordHeading(sections[k][1], 1)>>
         \o WordBody(sections[k][1], sections[k][2])
         \o (IF NotLast(sections, k) THEN <<[el |-> "page_break"]>> ELSE <<>>)
         \o WordSections(sections, k + 1)

\* ---- save_to_pdf (lines 555-658)
PdfParagraph(text, style) == [el |-> "paragraph", style |-> style, text |-> text]
PdfSpacer == [el |-> "spacer"]
Bold(text) == <<"<b>">> \o text \o <<"</b>">>

\* the four replace() calls of the HTML escaping (lines 616-620)
EscapeChar(c) ==
    CASE c = "&"  -> <<"&", "a", "m", "p", ";">>
      [] c = "<"  -> <<"&", "l", "t", ";">>
      [] c = ">"  -> <<"&", "g", "t", ";">>
      [] c = "\"" -> <<"&", "q", "u", "o", "t", ";">>
      [] OTHER    -> <<c>>

RECURSIVE Escape(_)
Escape(s) == IF s = <<>> THEN <<>> ELSE EscapeChar(Head(s)) \o Escape(Tail(s))

\* the text of the paragraph made for one non-blank line (lines 624-635)
PdfLineText(line_escaped) ==
    IF StartsWith(line_escaped, <<"#", "#", "#">>)
    THEN Bold(Strip(Remove(line_escaped, <<"#", "#", "#">>)))
    ELSE IF StartsWith(line_escaped, <<"#", "#">>)
    THEN Bold(Strip(Remove(line_escaped, <<"#", "#">>)))
    ELSE IF StartsWith(line_escaped, <<"#">>)
    THEN Bold(Strip(Remove(line_escaped, <<"#">>)))
    ELSE line_escaped

\* one line of a non-empty section (lines 611-646).  paragraph says how the
\* library's Paragraph() behaves: "ok", "styled_raises" (the styled paragraph
\* raises and the plain one is used) or "raises" (both raise: line skipped)
PdfLine(line, paragraph) ==
    LET line_clean == Strip(line)
        line_escaped == Escape(line_clean)
    IN  IF line_clean = <<>> THEN <<>>
        ELSE IF paragraph = "ok"
             THEN <<PdfParagraph(PdfLineText(line_escaped), "KoreanNormal"), PdfSpacer>>
        ELSE IF paragraph = "styled_raises"
             THEN <<PdfParagraph(line_escaped, "Normal"), PdfSpacer>>
        ELSE <<>>

RECURSIVE PdfLines(_, _)
PdfLines(lines, paragraph) ==
    IF lines = <<>> THEN <<>>
    ELSE PdfLine(Head(lines), paragraph) \o PdfLines(Tail(lines), paragraph)

\* the body of a section (lines 608-646): nothing is written for an empty one
PdfBody(title, content, paragraph) ==
    IF HasContent(content) THEN PdfLines(Split(content), paragraph)
    ELSE <<>>

RECURSIVE PdfSections(_, _, _)
PdfSections(sections, k, paragraph) ==
    IF k > Len(sections) THEN <<>>
    ELSE <<PdfParagraph(Bold(sections[k][1]), "KoreanHeading"), PdfSpacer>>
         \o PdfBody(sections[k][1], sections[k][2], paragraph)
         \o (IF NotLast(sections, k) THEN <<[el |-> "page_break"]>> ELSE <<>>)
         \o PdfSections(sections, k + 1, paragraph)

\* ---- save_to_qmd (lines 468-505)
FrontMatter ==
    << <<"-", "-", "-">>, <<"title: \"PDF\"">>, <<"format: html">>,
       <<"editor: visual">>, <<"-", "-", "-">>, <<>> >>

QmdBody(title, content) ==
    IF HasContent(content) THEN content
    ELSE <<"*">> \o title \o <<SP, NoContentMsg, "*">>

RECURSIVE QmdSections(_, _)
QmdSections(sections, k) ==
    IF k > Len(sections) THEN <<>>
    ELSE << <<"#", SP>> \o sections[k][1], <<>>,
            QmdBody(sections[k][1], sections[k][2]),
            <<>>, <<"-", "-", "-">>, <<>> >>
         \o QmdSections(sections, k + 1)

\* lines 496-498: if content_lines and content_lines[-2] == "---"
DropLastSeparator(content_lines) ==
    IF content_lines # <<>> /\ content_lines[Len(content_lines) - 1] = <<"-", "-", "-">>
    THEN SubSeq(content_lines, 1, Len(content_lines) - 2)
    ELSE content_lines

\* the lists of lines that '\n'.join turns into the file's text
QmdLines(sections) == DropLastSeparator(FrontMatter \o QmdSections(sections, 1))

(***************************************************************************)
(* SpecExport: the three functions applied to enumerated section mappings. *)
(***************************************************************************)
\* section titles ("요약 결과" and "번역 결과" in main, any keyword elsewhere)
Titles == { <<"S">>, <<"T">>, <<"U">> }

ExportContents ==
    { <<>>, <<SP>>, <<SP, NL>>, <<"a">>, <<"a", NL, NL, "b">>, <<"#", SP, "a">>,
      <<"#", "#", "a">>, <<"#", "#", "#", SP, "a", "#">>, <<"a", "<", "b">> }

\* keyword arguments: an ordered mapping, so no title occurs twice
SectionMappings ==
    { ss \in SeqsUpTo(Titles \X ExportContents, MaxSections) :
         \A i, j \in 1..Len(ss) : i # j => ss[i][1] # ss[j][1] }

ExportIdle ==
    /\ e_pc = "input"
    /\ e_sections = <<>>
    /\ e_out = <<>>
    /\ e_ok = FALSE

ExportStart ==
    /\ e_pc = "input"
    /\ e_sections \in SectionMappings
    /\ e_out = <<>>
    /\ e_ok = FALSE

\* save_to_word; saved says whether doc.save(filename) succeeded
SaveToWord ==
    /\ e_pc = "input"
    /\ \E saved \in BOOLEAN :
          /\ e_out' = WordSections(e_sections, 1)
          /\ e_ok' = saved
    /\ e_pc' = "word"
    /\ UNCHANGED e_sections
    /\ ExportOnly

\* save_to_pdf; built says whether doc.build(story) succeeded
SaveToPdf ==
    /\ e_pc = "input"
    /\ \E built \in BOOLEAN, paragraph \in {"ok", "styled_raises", "raises"} :
          /\ e_out' = PdfSections(e_sections, 1, paragraph)
          /\ e_ok' = built
    /\ e_pc' = "pdf"
    /\ UNCHANGED e_sections
    /\ ExportOnly

\* save_to_qmd; written says whether open()/write() succeeded
SaveToQmd ==
    /\ e_pc = "input"
    /\ \E written \in BOOLEAN :
          /\ e_out' = QmdLines(e_sections)
          /\ e_ok' = written
    /\ e_pc' = "qmd"
    /\ UNCHANGED e_sections
    /\ ExportOnly

ExportNext == SaveToWord \/ SaveToPdf \/ SaveToQmd

(***************************************************************************)
(* Error classification by substring of the error text (lines 82-91,      *)
(* 252-259, 370-371, 457-465).                                             *)
(***************************************************************************)
None == "None"

\* str.lower(), on the letters the enumerated texts hold
LowerChar(c) ==
    CASE c = "A" -> "a" [] c = "I" -> "i" [] c = "K" -> "k" [] c = "L" -> "l"
      [] c = "M" -> "m" [] c = "O" -> "o" [] c = "P" -> "p" [] c = "R" -> "r"
      [] c = "T" -> "t" [] c = "U" -> "u" [] c = "Y" -> "y" [] c = "E" -> "e"
      [] OTHER -> c

Lower(s) == [k \in 1..Len(s) |-> LowerChar(s[k])]

\* pat in s
Contains(s, pat) ==
    \E k \in 1..(Len(s) - Len(pat) + 1) : SubSeq(s, k, k + Len(pat) - 1) = pat

PatTimeout == <<"t", "i", "m", "e", "o", "u", "t">>
PatRateLimit == <<"r", "a", "t", "e", " ", "l", "i", "m", "i", "t">>
PatIncorrectKey == <<"I", "n", "c", "o", "r", "r", "e", "c", "t", " ", "A", "P", "I", " ", "k", "e", "y">>
PatQuota == <<"Y", "o", "u", " ", "e", "x", "c", "e", "e", "d", "e", "d", " ", "y", "o", "u", "r", " ", "c", "u", "r", "r", "e", "n", "t", " ", "q", "u", "o", "t", "a">>
PatNotExist == <<"d", "o", "e", "s", " ", "n", "o", "t", " ", "e", "x", "i", "s", "t">>

\* the chain with its first two tests swapped: a text naming both a timeout
\* and a rate limit would be reported as a rate limit
CallErrorCategoryRateFirst(error_msg) ==
    IF Contains(Lower(error_msg), PatRateLimit) THEN "rate_limit"
    ELSE IF Contains(Lower(error_msg), PatTimeout) THEN "timeout"
    ELSE "generic"

\* the if / elif / else chain of lines 254-259 and of lines 459-464
CallErrorCategory(error_msg) ==
    IF Contains(Lower(error_msg), PatTimeout) THEN "timeout"
    ELSE IF Contains(Lower(error_msg), PatRateLimit) THEN "rate_limit"
    ELSE "generic"

\* except branch of analyze_single_image_with_context (lines 252-259)
SingleCallError(error_msg, page_num) ==
    [level |-> "error", category |-> CallErrorCategory(error_msg),
     page |-> page_num, from |-> "single"]

\* except branch of the batch call (lines 457-465)
BatchCallError(error_msg) ==
    [level |-> "error", category |-> CallErrorCategory(error_msg),
     page |-> 0, from |-> "batch"]

\* except branch of the polish call (lines 370-371): one warning, whatever
\* the text
PolishCallError(error_msg) ==
    [level |-> "warning", category |-> "generic", page |-> 0, from |-> "polish"]

\* except branch of validate_openai_api_key (lines 82-91): the message
ValidationMessage(error_msg) ==
    IF Contains(error_msg, PatIncorrectKey) THEN "invalid_key"
    ELSE IF Contains(error_msg, PatQuota) THEN "quota_exceeded"
    ELSE IF Contains(error_msg, PatNotExist) THEN "model_inaccessible"
    ELSE "generic"

\* what validate_openai_api_key returns when the key check raised
ValidationFailure(error_msg) == <<None, FALSE, ValidationMessage(error_msg)>>

(***************************************************************************)
(* SpecErr: each handler applied to enumerated error texts.                *)
(***************************************************************************)
ErrFragments ==
    { <<"t", "i", "m", "e", "o", "u", "t">>,
      <<"R", "e", "q", "u", "e", "s", "t", " ", "T", "i", "m", "e", "o", "u", "t">>,
      <<"r", "a", "t", "e", " ", "l", "i", "m", "i", "t">>,
      <<"R", "a", "t", "e", " ", "L", "i", "m", "i", "t">>,
      <<"I", "n", "c", "o", "r", "r", "e", "c", "t", " ", "A", "P", "I", " ", "k", "e", "y">>,
      <<"i", "n", "c", "o", "r", "r", "e", "c", "t", " ", "a", "p", "i", " ", "k", "e", "y">>,
      <<"Y", "o", "u", " ", "e", "x", "c", "e", "e", "d", "e", "d", " ", "y", "o", "u", "r", " ", "c", "u", "r", "r", "e", "n", "t", " ", "q", "u", "o", "t", "a">>,
      <<"d", "o", "e", "s", " ", "n", "o", "t", " ", "e", "x", "i", "s", "t">>,
      <<"b", "o", "o", "m", " ">> }

RECURSIVE Concat(_)
Concat(ss) == IF ss = <<>> THEN <<>> ELSE Head(ss) \o Concat(Tail(ss))

ErrTexts == { Concat(fs) : fs \in SeqsUpTo(ErrFragments, MaxFrags) }

ErrIdle ==
    /\ x_pc = "input"
    /\ x_text = <<>>
    /\ x_msgs = <<>>
    /\ x_ret = <<>>

ErrStart ==
    /\ x_pc = "input"
    /\ x_text \in ErrTexts
    /\ x_msgs = <<>>
    /\ x_ret = <<>>

\* a look-ahead or page call raised
SingleCallRaises ==
    /\ x_pc = "input"
    /\ x_msgs' = <<SingleCallError(x_text, 1)>>
    /\ x_pc' = "single"
    /\ UNCHANGED <<x_text, x_ret>>
    /\ ErrOnly

\* the batch call raised
BatchCallRaises ==
    /\ x_pc = "input"
    /\ x_msgs' = <<BatchCallError(x_text)>>
    /\ x_pc' = "batch"
    /\ UNCHANGED <<x_text, x_ret>>
    /\ ErrOnly

\* the polish call raised
PolishCallRaises ==
    /\ x_pc = "input"
    /\ x_msgs' = <<PolishCallError(x_text)>>
    /\ x_pc' = "polish"
    /\ UNCHANGED <<x_text, x_ret>>
    /\ ErrOnly

\* OpenAI(api_key=...) or client.models.list() raised
ValidationRaises ==
    /\ x_pc = "input"
    /\ x_ret' = ValidationFailure(x_text)
    /\ x_pc' = "validate"
    /\ UNCHANGED <<x_text, x_msgs>>
    /\ ErrOnly

ErrNext == SingleCallRaises \/ BatchCallRaises \/ PolishCallRaises \/ ValidationRaises

(***************************************************************************)
(* analyze_single_image_with_context and analyze_images_with_gpt          *)
(* (lines 146-465).  A text the model returned is known by where it came   *)
(* from and by its length after strip(); the two context extractions are   *)
(* kept symbolic here (SpecText computes them).                            *)
(***************************************************************************)
Text(src, page, len) == [src |-> src, page |-> page, len |-> len]

\* the empty string
Empty == Text("empty", 0, 0)

\* None, where a text may stand
NoValue == Text("None", 0, 0)

\* extract_context_for_next_page(result, 800), line 322
ContextOf(result) == Text("context", result.page, ContextBudget)

\* extract_overlap_context(next_preview, 300)[0], lines 309-310
OverlapStartOf(next_preview) == Text("overlap_start", next_preview.page, OverlapBudget)

\* number of decimal digits of a page number
Digits(n) == IF n < 10 THEN 1 ELSE IF n < 100 THEN 2 ELSE 3

\* f"❌ [페이지 {i+1} 처리 실패]" (line 326): 14 characters and the number
Placeholder(page) == Text("placeholder", page, 14 + Digits(page))

\* what a call did: returned content (len: its length after strip(), 0 for
\* whitespace only; finish: finish_reason), returned no choices or no
\* content ("empty"), or raised with an error text
Outcome(t, len, finish, text) == [t |-> t, len |-> len, finish |-> finish, text |-> text]
Pending == Outcome("pending", 0, "", <<>>)
CallFailed(o) == o.t \in {"empty", "raise"} \/ (o.t = "content" /\ o.len = 0)

Msg(level, category, page, from, call) ==
    [level |-> level, category |-> category, page |-> page, from |-> from, call |-> call]

\* a message of the except handlers, stamped with the call it follows
Stamped(m, call) == Msg(m.level, m.category, m.page, m.from, call)

\* the messages analyze_single_image_with_context shows for an outcome of
\* its call (lines 245-259)
SingleMsgs(o, page_num, call) ==
    IF o.t = "raise" THEN <<Stamped(SingleCallError(o.text, page_num), call)>>
    ELSE IF o.t = "content" /\ o.finish = "length"
         THEN <<Msg("warning", "truncated", page_num, "single", call)>>
    ELSE <<>>

\* its return value (lines 245-261): the stripped content, else NoValue
SingleValue(o, src, page_num) ==
    IF o.t = "content" THEN Text(src, page_num, o.len) ELSE NoValue

\* Python truth of a returned value: neither NoValue nor ""
Truthy(v) == v # NoValue /\ v.len > 0

\* main, lines 884-885, 899-900, 903-905: the value returned for a task
\* is put in results if it is truthy, and a non-empty results is stored in
\* analysis_results with last_analysis_done = True and a success message
MainStores(value) == Truthy(value)

\* "\n\n".join(results): its length
RECURSIVE SumLen(_)
SumLen(rs) == IF rs = <<>> THEN 0 ELSE Head(rs).len + SumLen(Tail(rs))

ConcatOf(results) == Text("concat", 0, SumLen(results) + 2 * (Len(results) - 1))

\* a failed page that gets no entry
WithoutFailedPage(results, page) == results

\* line 326: results.append(f"❌ [페이지 {i+1} 처리 실패]")
WithFailedPage(results, page) == Append(results, Placeholder(page))

\* a failed page that leaves the context of the page before it in place
ContextKeptOnFailure(result, previous_context) ==
    IF Truthy(result) THEN ContextOf(result) ELSE previous_context

\* lines 320-327: previous_context after a page: the tail of its result, or
\* "" when the page failed
ContextAfter(result, previous_context) ==
    IF Truthy(result) THEN ContextOf(result) ELSE Empty

\* the for loop's step (line 297), whatever the page's result was
RetryFailedPage(i, ok) == IF ok THEN i + 1 ELSE i

NextIndex(i, ok) == i + 1

\* shortest concatenation the polish pass is tried on (line 337)
PolishMinLength == 3000

\* the polish pass tried however many pages failed
PolishWantedWhateverFailed(n, final_result, failed_pages) ==
    n > 2 /\ final_result.len > 3000

\* line 337: len(base64_images) > 2 and len(final_result) > 3000 and
\* len(failed_pages) <= len(base64_images) * 0.3.  For the page counts here
\* the floating-point product compares with an integer as 3n/10 does.
PolishWanted(n, final_result, failed_pages) ==
    /\ n > 2
    /\ final_result.len > PolishMinLength
    /\ 10 * Len(failed_pages) <= 3 * n

\* the guard accepting a result that is exactly 80% as long
PolishAcceptedAtEighty(polished_len, final_len) == 5 * polished_len >= 4 * final_len

\* line 364: len(polished_result) > len(final_result) * 0.8.  An integer
\* exceeds the floating-point product exactly when 5p > 4f: the product of an
\* integer below 2^50 and the double 0.8 is never rounded across an integer.
PolishAccepted(polished_len, final_len) == 5 * polished_len > 4 * final_len

\* a polish call whose failure is the run's failure
AfterPolishOrNone(o, final_result) ==
    IF o.t = "content" /\ PolishAccepted(o.len, final_result.len)
    THEN Text("polished", 0, o.len)
    ELSE IF o.t = "content" THEN final_result
    ELSE NoValue

\* lines 362-373: final_result after the polish call: the polished text if
\* it is accepted; the joined page results if it is too short, if the
\* response has no content, or if the call raised
AfterPolish(o, final_result) ==
    IF o.t = "content" /\ PolishAccepted(o.len, final_result.len)
    THEN Text("polished", 0, o.len)
    ELSE final_result

(***************************************************************************)
(* SpecRun: analyze_images_with_gpt, one step per call issued or returned. *)
(***************************************************************************)
\* lengths of the page texts the model returns
PageLens == {1, 1602}

BoomText == <<"b", "o", "o", "m">>

PreviewOutcomes ==
    { Outcome("content", 1, "stop", <<>>), Outcome("content", 0, "stop", <<>>),
      Outcome("empty", 0, "", <<>>), Outcome("raise", 0, "", BoomText) }

PageOutcomes ==
    { Outcome("content", l, "stop", <<>>) : l \in PageLens }
    \cup { Outcome("content", 1602, "length", <<>>), Outcome("content", 0, "stop", <<>>),
           Outcome("empty", 0, "", <<>>), Outcome("raise", 0, "", PatTimeout) }

PolishOutcomes(final_len) ==
    { Outcome("content", l, "stop", <<>>) :
         l \in {0, (4 * final_len) \div 5, (4 * final_len) \div 5 + 1, final_len} }
    \cup { Outcome("empty", 0, "", <<>>), Outcome("raise", 0, "", PatTimeout) }

BatchOutcomes ==
    { Outcome("content", 1, "stop", <<>>), Outcome("content", 1602, "length", <<>>),
      Outcome("content", 0, "stop", <<>>), Outcome("empty", 0, "", <<>>),
      Outcome("raise", 0, "", PatTimeout), Outcome("raise", 0, "", BoomText) }

\* client: whether a client object was passed; n: len(base64_images);
\* sizes: "ok", "large_total" (over 100MB together) or "too_big" (an image
\* over 20MB)
\* line 283: an image of more than 20MB ends the run; line 287: the warning
\* is for images of more than 100MB together
ImageLimitMB == 20
TotalLimitMB == 100

\* the sizes n images can have: "too_big" needs an image, and images within
\* the limit each that are over the total together need more than five
SizesPossible(n, sizes) ==
    /\ sizes = "too_big" => n >= 1
    /\ sizes = "large_total" => n * ImageLimitMB > TotalLimitMB

RunArgs ==
    { args \in [client : BOOLEAN, n : 0..MaxImages, sizes : {"ok", "large_total", "too_big"},
                process_separately : BOOLEAN] : SizesPossible(args.n, args.sizes) }

NoArgs == [client |-> FALSE, n |-> 0, sizes |-> "ok", process_separately |-> FALSE]

Call(kind, page, previous_context, next_page_start) ==
    [kind |-> kind, page |-> page, previous_context |-> previous_context,
     next_page_start |-> next_page_start, outcome |-> Pending]

\* the call log with the outcome of the last call filled in
Returned(calls, o) == [calls EXCEPT ![Len(calls)].outcome = o]

RunIdle ==
    /\ r_pc = "idle"
    /\ r_args = NoArgs
    /\ r_i = 0
    /\ r_results = <<>>
    /\ r_previous_context = Empty
    /\ r_next_page_start = Empty
    /\ r_failed_pages = <<>>
    /\ r_final_result = Empty
    /\ r_ret = NoValue
    /\ r_calls = <<>>
    /\ r_msgs = <<>>
    /\ r_in_flight = 0
    /\ r_task = "none"

\* the call of analyze_images_with_gpt up to its first model call
\* (lines 268-295, 376-403)
EnterRun(args) ==
    /\ r_args' = args
    /\ r_msgs' =
          IF ~args.client THEN <<Msg("error", "no_client", 0, "run", 0)>>
          ELSE IF args.n = 0 THEN <<Msg("error", "no_images", 0, "run", 0)>>
          ELSE IF args.sizes = "too_big" THEN <<Msg("error", "image_too_big", 0, "run", 0)>>
          ELSE IF args.sizes = "large_total" THEN <<Msg("warning", "large_total", 0, "run", 0)>>
          ELSE <<>>
    /\ r_pc' =
          IF ~args.client \/ args.n = 0 \/ args.sizes = "too_big" THEN "done"
          ELSE IF args.process_separately /\ args.n > 1 THEN "loop"
          ELSE "batch"
    /\ r_i' = 0
    /\ r_results' = <<>>
    /\ r_previous_context' = Empty
    /\ r_next_page_start' = Empty
    /\ r_failed_pages' = <<>>
    /\ r_final_result' = Empty
    /\ r_ret' = NoValue
    /\ r_calls' = <<>>

\* main, lines 870-900: a click runs analyze_images_with_gpt for the summary
\* if it is ticked, else for the translation
StartRun ==
    /\ r_pc = "idle"
    /\ \E args \in RunArgs : EnterRun(args)
    /\ \E task \in {"summary", "translation"} : r_task' = task
    /\ r_in_flight' = 0
    /\ RunOnly

\* a call that main would not wait for
TaskOverWhileWaiting(pc) == pc \in {"done", "wait_batch", "wait_polish"}

\* the call of analyze_images_with_gpt is synchronous: main goes on when it
\* has returned
TaskOver(pc) == pc = "done"

\* main, lines 887-900: with both tasks ticked, the translation run starts
\* when the summary run has returned, over the same pages and options
NextTask ==
    /\ TaskOver(r_pc)
    /\ r_task = "summary"
    /\ r_task' = "translation"
    /\ EnterRun(r_args)
    /\ UNCHANGED r_in_flight
    /\ RunOnly

\* lines 301-307: the look-ahead call for the next page is issued
IssuePreview ==
    /\ r_pc = "loop"
    /\ r_i < r_args.n - 1
    /\ r_calls' = Append(r_calls, Call("preview", r_i + 2, Empty, Empty))
    /\ r_in_flight' = r_in_flight + 1
    /\ r_pc' = "wait_preview"
    /\ UNCHANGED <<r_args, r_i, r_results, r_previous_context, r_next_page_start,
                   r_failed_pages, r_final_result, r_ret, r_msgs>>
    /\ UNCHANGED r_task
    /\ RunOnly

\* lines 308-312: the look-ahead call returns
ReturnPreview ==
    /\ r_pc = "wait_preview"
    /\ \E o \in PreviewOutcomes :
          LET next_preview == SingleValue(o, "preview", r_i + 2) IN
          /\ r_calls' = Returned(r_calls, o)
          /\ r_msgs' = r_msgs \o SingleMsgs(o, r_i + 2, Len(r_calls))
          /\ r_next_page_start' =
                IF Truthy(next_preview) THEN OverlapStartOf(next_preview) ELSE Empty
    /\ r_in_flight' = r_in_flight - 1
    /\ r_pc' = "page"
    /\ UNCHANGED <<r_args, r_i, r_results, r_previous_context, r_failed_pages,
                   r_final_result, r_ret>>
    /\ UNCHANGED r_task
    /\ RunOnly

\* lines 315-318: the call for page i+1 is issued (the last page has no
\* look-ahead before it)
IssuePage ==
    /\ r_pc = "page" \/ (r_pc = "loop" /\ r_i = r_args.n - 1)
    /\ r_calls' = Append(r_calls, Call("page", r_i + 1, r_previous_context, r_next_page_start))
    /\ r_in_flight' = r_in_flight + 1
    /\ r_pc' = "wait_page"
    /\ UNCHANGED <<r_args, r_i, r_results, r_previous_context, r_next_page_start,
                   r_failed_pages, r_final_result, r_ret, r_msgs>>
    /\ UNCHANGED r_task
    /\ RunOnly

\* lines 320-328: the page call returns; then the loop goes on (line 301
\* clears next_page_start) or ends
ReturnPage ==
    /\ r_pc = "wait_page"
    /\ \E o \in PageOutcomes :
          LET result == SingleValue(o, "page", r_i + 1)
              shown == SingleMsgs(o, r_i + 1, Len(r_calls))
          IN
          /\ r_calls' = Returned(r_calls, o)
          /\ IF Truthy(result)
             THEN /\ r_results' = Append(r_results, result)
                  /\ r_previous_context' = ContextAfter(result, r_previous_context)
                  /\ r_failed_pages' = r_failed_pages
                  /\ r_msgs' = r_msgs \o shown
                        \o <<Msg("success", "page_done", r_i + 1, "run", Len(r_calls))>>
             ELSE /\ r_results' = WithFailedPage(r_results, r_i + 1)
                  /\ r_previous_context' = ContextAfter(result, r_previous_context)
                  /\ r_failed_pages' = Append(r_failed_pages, r_i + 1)
                  /\ r_msgs' = r_msgs \o shown
                        \o <<Msg("error", "page_failed", r_i + 1, "run", Len(r_calls))>>
          /\ r_i' = NextIndex(r_i, Truthy(result))
    /\ r_in_flight' = r_in_flight - 1
    /\ r_next_page_start' = Empty
    /\ r_pc' = IF r_i' < r_args.n THEN "loop" ELSE "joined"
    /\ UNCHANGED <<r_args, r_final_result, r_ret>>
    /\ UNCHANGED r_task
    /\ RunOnly

\* lines 330-360, 373: the failed pages are listed, the results joined, and
\* the polish call issued or the concatenation returned
JoinResults ==
    /\ r_pc = "joined"
    /\ LET final_result == ConcatOf(r_results) IN
       /\ r_final_result' = final_result
       /\ r_msgs' =
             IF r_failed_pages # <<>>
             THEN Append(r_msgs, Msg("error", "failed_pages", 0, "run", Len(r_calls)))
             ELSE r_msgs
       /\ IF PolishWanted(r_args.n, final_result, r_failed_pages)
          THEN /\ r_calls' = Append(r_calls, Call("polish", 0, Empty, Empty))
               /\ r_in_flight' = r_in_flight + 1
               /\ r_ret' = r_ret
               /\ r_pc' = "wait_polish"
          ELSE /\ r_ret' = final_result
               /\ r_pc' = "done"
               /\ UNCHANGED <<r_calls, r_in_flight>>
    /\ UNCHANGED <<r_args, r_i, r_results, r_previous_context, r_next_page_start,
                   r_failed_pages>>
    /\ UNCHANGED r_task
    /\ RunOnly

\* lines 362-373: the polish call returns
ReturnPolish ==
    /\ r_pc = "wait_polish"
    /\ \E o \in PolishOutcomes(r_final_result.len) :
          /\ r_calls' = Returned(r_calls, o)
          /\ IF o.t = "content"
             THEN IF PolishAccepted(o.len, r_final_result.len)
                  THEN /\ r_final_result' = AfterPolish(o, r_final_result)
                       /\ r_msgs' = Append(r_msgs, Msg("success", "polished", 0, "run", Len(r_calls)))
                  ELSE /\ r_final_result' = AfterPolish(o, r_final_result)
                       /\ r_msgs' = Append(r_msgs, Msg("warning", "polish_too_short", 0, "run", Len(r_calls)))
             ELSE IF o.t = "raise"
             THEN /\ r_final_result' = AfterPolish(o, r_final_result)
                  /\ r_msgs' = Append(r_msgs, Stamped(PolishCallError(o.text), Len(r_calls)))
             ELSE /\ r_final_result' = AfterPolish(o, r_final_result)
                  /\ r_msgs' = r_msgs
    /\ r_ret' = r_final_result'
    /\ r_in_flight' = r_in_flight - 1
    /\ r_pc' = "done"
    /\ UNCHANGED <<r_args, r_i, r_results, r_previous_context, r_next_page_start,
                   r_failed_pages>>
    /\ UNCHANGED r_task
    /\ RunOnly

\* lines 425-434: the one call of batch mode is issued
IssueBatch ==
    /\ r_pc = "batch"
    /\ r_calls' = Append(r_calls, Call("batch", 0, Empty, Empty))
    /\ r_in_flight' = r_in_flight + 1
    /\ r_pc' = "wait_batch"
    /\ UNCHANGED <<r_args, r_i, r_results, r_previous_context, r_next_page_start,
                   r_failed_pages, r_final_result, r_ret, r_msgs>>
    /\ UNCHANGED r_task
    /\ RunOnly

\* lines 436-465: the batch call returns
ReturnBatch ==
    /\ r_pc = "wait_batch"
    /\ \E o \in BatchOutcomes :
          LET call == Len(r_calls)
              cut == IF o.t = "content" /\ o.finish = "length"
                     THEN <<Msg("warning", "truncated", 0, "batch", call)>> ELSE <<>>
          IN
          /\ r_calls' = Returned(r_calls, o)
          /\ IF o.t = "content" /\ o.len > 0
             THEN /\ r_ret' = Text("batch", 0, o.len)
                  /\ r_msgs' = r_msgs \o cut
             ELSE IF o.t = "content"
             THEN /\ r_ret' = NoValue
                  /\ r_msgs' = r_msgs \o cut \o <<Msg("error", "empty_content", 0, "batch", call)>>
             ELSE IF o.t = "empty"
             THEN /\ r_ret' = NoValue
                  /\ r_msgs' = Append(r_msgs, Msg("error", "no_response", 0, "batch", call))
             ELSE /\ r_ret' = NoValue
                  /\ r_msgs' = Append(r_msgs, Stamped(BatchCallError(o.text), call))
    /\ r_in_flight' = r_in_flight - 1
    /\ r_pc' = "done"
    /\ UNCHANGED <<r_args, r_i, r_results, r_previous_context, r_next_page_start,
                   r_failed_pages, r_final_result>>
    /\ UNCHANGED r_task
    /\ RunOnly

RunNext ==
    \/ StartRun
    \/ NextTask
    \/ IssuePreview
    \/ ReturnPreview
    \/ IssuePage
    \/ ReturnPage
    \/ JoinResults
    \/ ReturnPolish
    \/ IssueBatch
    \/ ReturnBatch

(***************************************************************************)
(* main() and st.session_state (lines 661-1056).  One rerun of the script  *)
(* is the sequence of steps KeyStep, PdfStep, PagesStep, MainStep,         *)
(* ResultsStep, EndRerun; an uncaught exception ends it early.             *)
(***************************************************************************)
\* no file in the uploader
NoFile == [name |-> 0, pages |-> 0]

\* the PDFs the user may upload, one of every length
Docs == {[name |-> n, pages |-> n] : n \in 1..MaxPages}

\* hash(pdf_file.getvalue()); a session that has seen no file has none
NoHash == 0
Hash(pdf_file) == pdf_file.name

\* convert_pdf_to_base64_images (lines 18-55): one image path and one base64
\* string per page; both lists empty when the conversion raised
ImagePaths(pdf_file, converted) ==
    IF converted THEN [k \in 1..pdf_file.pages |-> [dir |-> pdf_file.name, page |-> k]]
    ELSE <<>>

Base64Images(pdf_file, converted) ==
    IF converted THEN [k \in 1..pdf_file.pages |-> [doc |-> pdf_file.name, page |-> k]]
    ELSE <<>>

\* the keys the user may type
Keys == {"k1", "k2"}

\* a results dictionary: for each section "absent", or the age of its text:
\* "new" when the analysis run of this rerun produced it, "old" otherwise
Sections(summary, translation) == [summary |-> summary, translation |-> translation]
NoSections == Sections("absent", "absent")
IsEmptyDict(d) == d = NoSections

\* the texts of earlier runs, seen from a new run
Age(a) == IF a = "new" THEN "old" ELSE a
Aged(d) == Sections(Age(d.summary), Age(d.translation))

\* what analyze_images_with_gpt returned: a non-empty text or None.  Every
\* call with a client and images can return either (SpecRun).
AnalyzeReturns == {"new", "absent"}

\* the single-page guard with its test left out
SinglePageIndicesUnchecked(page_number, count) == {page_number - 1}

\* lines 773-774, 855-856, 929-930, 952-953: the index read in single-page
\* mode, under the guard 0 <= page_number-1 < len(...)
SinglePageIndices(page_number, count) ==
    IF 0 <= page_number - 1 /\ page_number - 1 < count THEN {page_number - 1} ELSE {}

\* lines 777-779, 933-935, 956-958: the indices read by the preview and the
\* display in range mode: range(start_page-1, min(end_page, len)), if i < len
RangeIndices(start_page, end_page, count) ==
    {i \in (start_page - 1)..(Min(end_page, count) - 1) : i < count}

\* lines 861-863: the indices of the slice base64_images[start_idx:end_idx]
SliceIndices(start_page, end_page, count) ==
    LET start_idx == Max(0, start_page - 1)
        end_idx == Min(count, end_page)
    IN  {i \in start_idx..(end_idx - 1) : i < count}

\* lines 782-784: the preview of the whole document shows its first 5 pages
PreviewPages == 5
WholePreviewIndices(count) == 0..(Min(PreviewPages, count) - 1)

\* lines 865, 937-938, 960-961: every page
AllIndices(count) == 0..(count - 1)

PreviewIndices(mode, count) ==
    CASE mode = "single" -> SinglePageIndices(ss_page_number, count)
      [] mode = "range"  -> RangeIndices(ss_start_page, ss_end_page, count)
      [] OTHER           -> WholePreviewIndices(count)

SelectionIndices(mode, count) ==
    CASE mode = "single" -> SinglePageIndices(ss_page_number, count)
      [] mode = "range"  -> SliceIndices(ss_start_page, ss_end_page, count)
      [] OTHER           -> AllIndices(count)

DisplayIndices(mode, count) ==
    CASE mode = "single" -> SinglePageIndices(ss_page_number, count)
      [] mode = "range"  -> RangeIndices(ss_start_page, ss_end_page, count)
      [] OTHER           -> AllIndices(count)

\* lines 903-908: analysis_results after the run: results, if it is not empty
StoredResults(results, previous) ==
    IF IsEmptyDict(results) THEN previous ELSE results

\* the flag set by every run, whatever it produced
DoneAfterAnyRun(results, previous) == TRUE

\* lines 903-905: last_analysis_done after the run: True if results is not
\* empty, else as it was
DoneAfterRun(results, previous) ==
    IF IsEmptyDict(results) THEN previous ELSE TRUE

\* one thing a rerun did: op is "cleanup" (paths handed to
\* cleanup_temp_files), "convert" (paths written by the conversion),
\* "temp_files" (the new value of temp_files), "reset" (analysis_results and
\* last_analysis_done reset) or "create" (a temporary export file made)
Event(op, paths) == [op |-> op, paths |-> paths]

\* the conversion done before the old temporary files are handed over
FileChangeStepsConvertFirst(temp_files, images) ==
    << Event("convert", images),
       Event("cleanup", temp_files),
       Event("temp_files", images),
       Event("reset", <<>>) >>

\* lines 730-744, in the order of the code: the old temporary files go to
\* cleanup_temp_files, the document is converted, temp_files takes the new
\* image paths, the results are reset
FileChangeSteps(temp_files, images) ==
    << Event("cleanup", temp_files),
       Event("convert", images),
       Event("temp_files", images),
       Event("reset", <<>>) >>

\* the temporary export files: NamedTemporaryFile(delete=False, suffix=...)
ExportDir == 0
ExportPath(k) == [dir |-> ExportDir, page |-> k]
DocxPath == ExportPath(1)
PdfPath == ExportPath(2)
QmdPath == ExportPath(3)

\* lines 968-993 and 1054-1056: each export file is made, and is put on
\* temp_files_for_cleanup if its save function returned True; the finally
\* clause hands that list to cleanup_temp_files
ExportSteps(word_saved, pdf_saved, qmd_saved) ==
    LET temp_files_for_cleanup ==
            (IF word_saved THEN <<DocxPath>> ELSE <<>>)
            \o (IF pdf_saved THEN <<PdfPath>> ELSE <<>>)
            \o (IF qmd_saved THEN <<QmdPath>> ELSE <<>>)
    IN  << Event("create", <<DocxPath>>),
           Event("create", <<PdfPath>>),
           Event("create", <<QmdPath>>),
           Event("cleanup", temp_files_for_cleanup) >>

\* initialize_session_state (lines 661-679), first run of the script
SessionInit ==
    /\ ss_images = <<>>
    /\ ss_base64_images = <<>>
    /\ ss_page_number = 1
    /\ ss_start_page = 1
    /\ ss_end_page = 1
    /\ ss_analysis_results = NoSections
    /\ ss_last_analysis_done = FALSE
    /\ ss_include_images = FALSE
    /\ ss_temp_files = <<>>
    /\ ss_api_key_validated = FALSE
    /\ ss_client = None
    /\ ss_last_api_key = ""
    /\ ss_last_file_hash = NoHash

MainIdle ==
    /\ m_pc = "idle"
    /\ m_pdf_file = NoFile
    /\ m_mode = "single"
    /\ m_reads = {}
    /\ m_parts = {}
    /\ m_clicked = FALSE
    /\ m_ran = FALSE
    /\ m_results = NoSections
    /\ m_log = <<>>
    /\ m_openai_api_key = ""
    /\ m_validation = "not_called"

\* a key validated on every rerun that has one in the field
NeedsValidationAlways(openai_api_key, api_key_validated, last_api_key) ==
    openai_api_key # ""

\* lines 698-699: openai_api_key and (not api_key_validated or
\* last_api_key != openai_api_key)
NeedsValidation(openai_api_key, api_key_validated, last_api_key) ==
    /\ openai_api_key # ""
    /\ (~api_key_validated \/ last_api_key # openai_api_key)

\* lines 686-710: a rerun starts; the API key field is read and the key
\* validated if it is new or none is validated yet
KeyStep ==
    /\ m_pc = "idle"
    /\ \E openai_api_key \in Keys \cup {""}, is_valid \in BOOLEAN :
          /\ m_openai_api_key' = openai_api_key
          /\ IF NeedsValidation(openai_api_key, ss_api_key_validated, ss_last_api_key)
             THEN IF is_valid
                  THEN /\ ss_client' = openai_api_key
                       /\ ss_api_key_validated' = TRUE
                       /\ ss_last_api_key' = openai_api_key
                       /\ m_validation' = "valid"
                  ELSE /\ ss_client' = None
                       /\ ss_api_key_validated' = FALSE
                       /\ ss_last_api_key' = ss_last_api_key
                       /\ m_validation' = "invalid"
             ELSE /\ UNCHANGED keyVars
                  /\ m_validation' = "not_called"
    /\ m_pc' = "sidebar"
    /\ UNCHANGED <<m_pdf_file, m_mode, m_reads, m_parts, m_clicked, m_ran, m_results, m_log>>
    /\ UNCHANGED <<docVars, pageVars, resultVars, ss_include_images>>
    /\ SessionOnly

\* lines 720-744 (the key field's value and the validation's return values
\* are not used after line 710): the uploader and the mode are read; a file whose hash is
\* not last_file_hash is converted, after the old temporary files were
\* handed to cleanup_temp_files, and the results are reset
PdfStep ==
    /\ m_pc = "sidebar"
    /\ \E pdf_file \in Docs \cup {NoFile}, mode \in {"single", "range", "all"},
          converted \in BOOLEAN :
          /\ m_pdf_file' = pdf_file
          /\ m_mode' = mode
          /\ IF pdf_file # NoFile /\ ss_last_file_hash # Hash(pdf_file)
             THEN /\ ss_images' = ImagePaths(pdf_file, converted)
                  /\ ss_base64_images' = Base64Images(pdf_file, converted)
                  /\ ss_temp_files' = ImagePaths(pdf_file, converted)
                  /\ ss_last_file_hash' = Hash(pdf_file)
                  /\ ss_analysis_results' = NoSections
                  /\ ss_last_analysis_done' = FALSE
                  /\ m_log' = m_log \o FileChangeSteps(ss_temp_files,
                                                       ImagePaths(pdf_file, converted))
             ELSE UNCHANGED <<docVars, resultVars, m_log>>
          /\ m_pc' = IF pdf_file # NoFile /\ Len(ss_images') > 0 /\ mode # "all"
                     THEN "pages" ELSE "main"
    /\ m_openai_api_key' = ""
    /\ m_validation' = "not_called"
    /\ UNCHANGED <<m_reads, m_parts, m_clicked, m_ran, m_results>>
    /\ UNCHANGED <<keyVars, pageVars, ss_include_images>>
    /\ SessionOnly

\* st.number_input(label, min, max, value) raises when value is outside
\* min..max, and returns a number of min..max otherwise
NumberInputRaises(min_value, max_value, value) == value < min_value \/ value > max_value

\* lines 746-761: the page number inputs.  An exception of number_input is
\* not caught: it ends the rerun, what was assigned before it stays.
PagesStep ==
    /\ m_pc = "pages"
    /\ LET total_pages == Len(ss_images) IN
       IF m_mode = "single"
       THEN IF NumberInputRaises(1, total_pages, ss_page_number)
            THEN /\ m_pc' = "end"
                 /\ UNCHANGED pageVars
            ELSE /\ \E page_number \in 1..total_pages : ss_page_number' = page_number
                 /\ m_pc' = "main"
                 /\ UNCHANGED <<ss_start_page, ss_end_page>>
       ELSE IF NumberInputRaises(1, total_pages, ss_start_page)
            THEN /\ m_pc' = "end"
                 /\ UNCHANGED pageVars
            ELSE \E start_page \in 1..total_pages :
                    /\ ss_start_page' = start_page
                    /\ IF NumberInputRaises(start_page, total_pages,
                                            Min(ss_end_page, total_pages))
                       THEN /\ m_pc' = "end"
                            /\ ss_end_page' = ss_end_page
                       ELSE /\ \E end_page \in start_page..total_pages :
                                  ss_end_page' = end_page
                            /\ m_pc' = "main"
                    /\ ss_page_number' = ss_page_number
    /\ UNCHANGED <<m_pdf_file, m_mode, m_reads, m_parts, m_clicked, m_ran, m_results, m_log,
                   m_openai_api_key, m_validation>>
    /\ UNCHANGED <<keyVars, docVars, resultVars, ss_include_images>>
    /\ SessionOnly

\* lines 766-911: the preview, the options and the analysis button.  The
\* button is disabled unless summary or translation is ticked; a click runs
\* analyze_images_with_gpt once for each ticked task over the selected pages.
MainStep ==
    /\ m_pc = "main"
    /\ IF m_pdf_file # NoFile /\ Len(ss_images) > 0
       THEN LET preview == PreviewIndices(m_mode, Len(ss_images)) IN
            IF ~ss_api_key_validated
            THEN /\ m_reads' = m_reads \cup preview
                 /\ m_parts' = m_parts \cup {"preview"}
                 /\ UNCHANGED <<m_clicked, m_ran, m_results, resultVars, ss_include_images>>
            ELSE \E do_summary, do_translation, include_images, clicked \in BOOLEAN :
                 /\ ss_include_images' = include_images
                 /\ m_clicked' = (clicked /\ (do_summary \/ do_translation))
                 /\ IF m_clicked' /\ Len(ss_base64_images) > 0
                    THEN LET selected == SelectionIndices(m_mode, Len(ss_base64_images)) IN
                         /\ m_reads' = m_reads \cup preview \cup selected
                         /\ m_parts' = m_parts \cup {"preview", "selection"}
                         /\ IF selected # {}
                            THEN \E summary, translation \in AnalyzeReturns :
                                 LET results ==
                                        Sections(IF do_summary THEN summary ELSE "absent",
                                                 IF do_translation THEN translation ELSE "absent")
                                 IN  /\ m_ran' = TRUE
                                     /\ m_results' = results
                                     /\ ss_analysis_results' =
                                           StoredResults(results, Aged(ss_analysis_results))
                                     /\ ss_last_analysis_done' =
                                           DoneAfterRun(results, ss_last_analysis_done)
                            ELSE UNCHANGED <<m_ran, m_results, resultVars>>
                    ELSE /\ m_reads' = m_reads \cup preview
                         /\ m_parts' = m_parts \cup {"preview"}
                         /\ UNCHANGED <<m_ran, m_results, resultVars>>
       ELSE UNCHANGED <<m_reads, m_parts, m_clicked, m_ran, m_results, resultVars,
                        ss_include_images>>
    /\ m_pc' = "results"
    /\ UNCHANGED <<m_pdf_file, m_mode, m_log, m_openai_api_key, m_validation>>
    /\ UNCHANGED <<keyVars, docVars, pageVars>>
    /\ SessionOnly

\* lines 914-1056: the stored results are shown, with the page images if
\* asked for, the export files are offered, and the clear button is read
\* (a click of it is what started this rerun, so the analysis button was not
\* clicked)
ResultsStep ==
    /\ m_pc = "results"
    /\ IF ss_last_analysis_done /\ ~IsEmptyDict(ss_analysis_results)
       THEN /\ IF ss_include_images
               THEN /\ m_reads' = m_reads \cup DisplayIndices(m_mode, Len(ss_images))
                    /\ m_parts' = m_parts \cup {"display"}
               ELSE UNCHANGED <<m_reads, m_parts>>
            /\ \E word_saved, pdf_saved, qmd_saved \in BOOLEAN :
                  m_log' = m_log \o ExportSteps(word_saved, pdf_saved, qmd_saved)
            /\ \E clear \in BOOLEAN :
                  IF clear /\ ~m_clicked
                  THEN /\ ss_analysis_results' = NoSections
                       /\ ss_last_analysis_done' = FALSE
                  ELSE UNCHANGED resultVars
       ELSE UNCHANGED <<m_reads, m_parts, resultVars, m_log>>
    /\ m_pc' = "end"
    /\ UNCHANGED <<m_pdf_file, m_mode, m_clicked, m_ran, m_results, m_openai_api_key, m_validation>>
    /\ UNCHANGED <<keyVars, docVars, pageVars, ss_include_images>>
    /\ SessionOnly

\* the script run is over; its local variables are gone
EndRerun ==
    /\ m_pc = "end"
    /\ m_pc' = "idle"
    /\ m_pdf_file' = NoFile
    /\ m_mode' = "single"
    /\ m_reads' = {}
    /\ m_parts' = {}
    /\ m_clicked' = FALSE
    /\ m_ran' = FALSE
    /\ m_results' = NoSections
    /\ m_log' = <<>>
    /\ m_openai_api_key' = ""
    /\ m_validation' = "not_called"
    /\ ss_analysis_results' = Aged(ss_analysis_results)
    /\ UNCHANGED ss_last_analysis_done
    /\ UNCHANGED <<keyVars, docVars, pageVars, ss_include_images>>
    /\ SessionOnly

SessionNext ==
    \/ KeyStep
    \/ PdfStep
    \/ PagesStep
    \/ MainStep
    \/ ResultsStep
    \/ EndRerun

(***************************************************************************)
(* SpecCleanup: cleanup_temp_files (lines 56-66), one step per path.       *)
(***************************************************************************)
\* the paths a list may name; the same path may be listed twice
PathNames == {"p", "q"}

\* what os.unlink and shutil.rmtree can raise, all subclasses of Exception
DeleteErrors == {"PermissionError", "FileNotFoundError"}

\* a handler that lets permission errors through
CaughtIfNotFound(exception) == exception = "FileNotFoundError"

\* line 65: except Exception
Caught(exception) == exception \in DeleteErrors

CleanupIdle ==
    /\ c_pc = "idle"
    /\ c_temp_paths = <<>>
    /\ c_i = 0
    /\ c_fs = [p \in PathNames |-> "missing"]
    /\ c_warnings = <<>>

CleanupStart ==
    /\ c_pc = "loop"
    /\ c_temp_paths \in SeqsUpTo(PathNames, MaxPaths)
    /\ c_i = 0
    /\ c_fs \in [PathNames -> {"file", "dir", "other", "missing"}]
    /\ c_warnings = <<>>

\* lines 60-64 went through for the next path: nothing to delete, or the
\* file or directory was deleted
CleanupPath ==
    /\ c_pc = "loop"
    /\ c_i < Len(c_temp_paths)
    /\ LET path == c_temp_paths[c_i + 1] IN
       c_fs' = IF c_fs[path] \in {"file", "dir"} THEN [c_fs EXCEPT ![path] = "missing"]
               ELSE c_fs
    /\ c_i' = c_i + 1
    /\ UNCHANGED <<c_pc, c_temp_paths, c_warnings>>
    /\ CleanupOnly

\* lines 62-66: os.unlink or shutil.rmtree raised for the next path; the
\* handler shows a warning and the loop goes on
CleanupPathFails ==
    /\ c_pc = "loop"
    /\ c_i < Len(c_temp_paths)
    /\ c_fs[c_temp_paths[c_i + 1]] \in {"file", "dir"}
    /\ \E exception \in DeleteErrors :
          IF Caught(exception)
          THEN /\ c_warnings' = Append(c_warnings, <<c_i + 1, exception>>)
               /\ c_i' = c_i + 1
               /\ c_pc' = c_pc
          ELSE /\ c_pc' = "raised"
               /\ UNCHANGED <<c_i, c_warnings>>
    /\ UNCHANGED <<c_temp_paths, c_fs>>
    /\ CleanupOnly

\* line 58: the list is exhausted, the function returns
CleanupReturns ==
    /\ c_pc = "loop"
    /\ c_i = Len(c_temp_paths)
    /\ c_pc' = "done"
    /\ UNCHANGED <<c_temp_paths, c_i, c_fs, c_warnings>>
    /\ CleanupOnly

CleanupNext ==
    \/ CleanupPath
    \/ CleanupPathFails
    \/ CleanupReturns

(***************************************************************************)
(* Claims about the context-window extraction (SpecText).                  *)
(***************************************************************************)
\* C2: for every content and every max_length >= 1 the string returned by
\* extract_context_for_next_page, newline separators counted, is at most
\* max_length characters long.
C2_ContextWithinBudget ==
    t_pc = "context" => Len(t_context) <= t_max

\* C2 witness: a context of several lines that uses the budget as far as the
\* code lets it (one below max_length) has been returned.
C2_Witness ==
    /\ t_pc = "context"
    /\ \E k \in 1..Len(t_context) : t_context[k] = NL
    /\ Len(t_context) = t_max - 1

\* C3: both strings returned by extract_overlap_context, newline separators
\* counted, are at most max_length characters long.
C3_OverlapWithinBudget ==
    t_pc = "overlap" => Len(t_start) <= t_max /\ Len(t_end) <= t_max

\* the stripped non-empty lines among the final 10 lines of the content
NonEmptyTail(content) == NonEmptyStripped(LastN(Split(content), TailLines))

\* the longest suffix of ls whose joined length is at most limit
LongestSuffixWithin(ls, limit) ==
    LET fits == {k \in 0..Len(ls) : Len(Join(LastN(ls, k))) <= limit}
        best == CHOOSE k \in fits : \A j \in fits : j <= k
    IN  LastN(ls, best)

\* C6: extract_context_for_next_page returns, in order, the longest suffix of
\* the non-empty stripped lines of the final 10 lines that fits the budget;
\* blank lines between non-empty lines do not end the window.  "Fits" is read
\* both ways: joined length at most max_length, or below it as the code's
\* comparison has it.
C6_LongestNonEmptySuffix ==
    t_pc = "context" =>
        \/ t_context = Join(LongestSuffixWithin(NonEmptyTail(t_content), t_max))
        \/ t_context = Join(LongestSuffixWithin(NonEmptyTail(t_content), t_max - 1))

(***************************************************************************)
(* Claims about the export functions (SpecExport).                         *)
(***************************************************************************)
NonBlank(text) == Strip(text) # <<>>

\* the written document has, under the heading of section title, a
\* paragraph (a line, for the QMD text) that is not blank
BodyUnderHeading(format, out, title) ==
    CASE format = "word" ->
           \E j \in 1..Len(out) :
              /\ out[j] = WordHeading(title, 1)
              /\ j + 1 <= Len(out)
              /\ out[j + 1].el = "paragraph"
              /\ NonBlank(out[j + 1].text)
      [] format = "pdf" ->
           \E j \in 1..Len(out) :
              /\ out[j] = PdfParagraph(Bold(title), "KoreanHeading")
              /\ j + 2 <= Len(out)
              /\ out[j + 2].el = "paragraph"
              /\ NonBlank(out[j + 2].text)
      [] format = "qmd" ->
           \E j \in 1..Len(out) :
              /\ out[j] = <<"#", SP>> \o title
              /\ j + 2 <= Len(out)
              /\ NonBlank(out[j + 2])

\* C4: for every section whose content is empty or whitespace-only, each of
\* save_to_word, save_to_pdf and save_to_qmd writes a placeholder message
\* under that section's heading instead of leaving the section body empty.
C4_PlaceholderForEmptySection ==
    (e_pc \in {"word", "pdf", "qmd"} /\ e_ok) =>
        \A k \in 1..Len(e_sections) :
            ~HasContent(e_sections[k][2]) =>
                BodyUnderHeading(e_pc, e_out, e_sections[k][1])


\* the lines of a .qmd file as the layout has them: the front-matter block,
\* then for each section its heading and body, with a separator line between
\* one section and the next and none after the last
Dashes == <<"-", "-", "-">>

RECURSIVE QmdLayoutFrom(_, _)
QmdLayoutFrom(sections, k) ==
    IF k > Len(sections) THEN <<>>
    ELSE << <<"#", SP>> \o sections[k][1], <<>>,
            QmdBody(sections[k][1], sections[k][2]), <<>> >>
         \o (IF k < Len(sections) THEN <<Dashes, <<>>>> ELSE <<>>)
         \o QmdLayoutFrom(sections, k + 1)

\* C18: for every sections mapping, the empty one included, the text
\* save_to_qmd writes begins with a complete front-matter block (opening
\* '---', title, format, editor, closing '---'), then has one level-1
\* heading per section in mapping order, a '---' line between consecutive
\* sections and none after the last.
C18_QmdLayout ==
    e_pc = "qmd" =>
        /\ Len(e_out) >= 5
        /\ SubSeq(e_out, 1, 5) =
              <<Dashes, <<"title: \"PDF\"">>, <<"format: html">>, <<"editor: visual">>, Dashes>>
        /\ SubSeq(e_out, 7, Len(e_out)) = QmdLayoutFrom(e_sections, 1)

(***************************************************************************)
(* Claims about the error classification (SpecErr).                        *)
(***************************************************************************)
\* category is the first of timeout, rate limit, generic whose pattern the
\* lower-cased error text holds
FirstMatchOfText(category) ==
    /\ category \in {"timeout", "rate_limit", "generic"}
    /\ category = "timeout" <=> Contains(Lower(x_text), PatTimeout)
    /\ category = "rate_limit" <=>
          (~Contains(Lower(x_text), PatTimeout) /\ Contains(Lower(x_text), PatRateLimit))

\* a failed key validation returns (None, False, message), the message being
\* the first of invalid credential, quota exceeded, inaccessible model,
\* generic whose pattern the error text holds
ValidationFirstMatch ==
    x_pc = "validate" =>
        /\ Len(x_ret) = 3 /\ x_ret[1] = None /\ x_ret[2] = FALSE
        /\ x_ret[3] \in {"invalid_key", "quota_exceeded", "model_inaccessible", "generic"}
        /\ x_ret[3] = "invalid_key" <=> Contains(x_text, PatIncorrectKey)
        /\ x_ret[3] = "quota_exceeded" <=>
              (~Contains(x_text, PatIncorrectKey) /\ Contains(x_text, PatQuota))
        /\ x_ret[3] = "model_inaccessible" <=>
              (/\ ~Contains(x_text, PatIncorrectKey)
               /\ ~Contains(x_text, PatQuota)
               /\ Contains(x_text, PatNotExist))

\* C10 as stated: every model call that raised (look-ahead, page, batch or
\* polish) is reported under exactly one category, the first of timeout,
\* rate limit, generic that matches the text case-insensitively; every failed
\* key validation returns (None, False, message) with the first matching of
\* its four messages.
C10_EveryCallClassified ==
    /\ x_pc \in {"single", "batch", "polish"} =>
          Len(x_msgs) = 1 /\ FirstMatchOfText(x_msgs[1].category)
    /\ ValidationFirstMatch

\* C10 amended: the first-match classification holds for the look-ahead, page
\* and batch calls; a polish call that raised is reported by one generic
\* warning whatever its text; key validation as stated.
C10_CallsClassifiedPolishGeneric ==
    /\ x_pc \in {"single", "batch"} =>
          /\ Len(x_msgs) = 1
          /\ x_msgs[1].level = "error"
          /\ FirstMatchOfText(x_msgs[1].category)
    /\ x_pc = "polish" =>
          /\ Len(x_msgs) = 1
          /\ x_msgs[1].level = "warning"
          /\ x_msgs[1].category = "generic"
    /\ ValidationFirstMatch

\* C10 witness: a page call raised with a text that names both a timeout
\* (in capitals only) and a rate limit, and was reported as a timeout.
C10_Witness ==
    /\ x_pc = "single"
    /\ Contains(Lower(x_text), PatTimeout)
    /\ ~Contains(x_text, PatTimeout)
    /\ Contains(Lower(x_text), PatRateLimit)
    /\ x_msgs[1].category = "timeout"


(***************************************************************************)
(* Claims about one run of analyze_images_with_gpt (SpecRun).              *)
(***************************************************************************)
\* the run got past the checks of its arguments (lines 270-285)
RunAccepted == r_args.client /\ r_args.n > 0 /\ r_args.sizes # "too_big"

\* the run takes the per-page branch (line 291)
PerPageRun == RunAccepted /\ r_args.process_separately /\ r_args.n > 1

LastCall == r_calls[Len(r_calls)]

\* C5: in per-page mode the polished text replaces the concatenation of the
\* page results exactly when it is more than 80% as long; otherwise (less
\* than, or exactly, 80%) the unpolished concatenation is returned.
C5_PolishKeptIffOverEighty ==
    (/\ r_pc = "done"
     /\ r_calls # <<>>
     /\ LastCall.kind = "polish"
     /\ LastCall.outcome.t = "content") =>
        LET polished_len == LastCall.outcome.len
            concatenation == ConcatOf(r_results)
        IN  IF 100 * polished_len > 80 * concatenation.len
            THEN r_ret = Text("polished", 0, polished_len)
            ELSE r_ret = concatenation

\* C5 witness: a polish answer exactly 80% as long as the concatenation was
\* turned down and the concatenation returned.
C5_Witness ==
    /\ r_pc = "done"
    /\ r_calls # <<>>
    /\ LastCall.kind = "polish"
    /\ LastCall.outcome.t = "content"
    /\ 5 * LastCall.outcome.len = 4 * ConcatOf(r_results).len
    /\ r_ret = ConcatOf(r_results)

\* the look-ahead and page calls of a per-page run over n pages, in order:
\* before every page but the last the look-ahead of the page after it
Schedule(n) ==
    [k \in 1..(2 * n - 1) |->
        IF k = 2 * n - 1 THEN <<"page", n>>
        ELSE IF k % 2 = 1 THEN <<"preview", (k + 1) \div 2 + 1>>
        ELSE <<"page", k \div 2>>]

IsPageOrPreview(c) == c.kind \in {"preview", "page"}

\* C8: no failure triggers a retry.  In a per-page run the look-ahead and
\* page calls issued so far are a prefix of the fixed schedule for n pages,
\* whatever succeeded or failed, and all of it once the loop has ended; a
\* batch run issues one call and no second one; a run turned down for its
\* arguments issues none.
C8_NoRetry ==
    /\ (r_pc # "idle" /\ PerPageRun) =>
          LET issued == SelectSeq(r_calls, IsPageOrPreview)
              schedule == Schedule(r_args.n)
          IN
          /\ Len(issued) <= 2 * r_args.n - 1
          /\ \A k \in 1..Len(issued) :
                <<issued[k].kind, issued[k].page>> = schedule[k]
          /\ r_pc \in {"joined", "wait_polish", "done"} => Len(issued) = 2 * r_args.n - 1
    /\ (r_pc # "idle" /\ RunAccepted /\ ~PerPageRun) =>
          /\ Len(r_calls) <= 1
          /\ r_pc = "done" => (Len(r_calls) = 1 /\ r_calls[1].kind = "batch")
    /\ (r_pc # "idle" /\ ~RunAccepted) => r_calls = <<>>

\* C8 witness: a per-page run over three or more pages has ended in which a
\* look-ahead call and a page call failed.
C8_Witness ==
    /\ r_pc = "done"
    /\ PerPageRun
    /\ r_args.n >= 3
    /\ \E k \in 1..Len(r_calls) :
          r_calls[k].kind = "preview" /\ CallFailed(r_calls[k].outcome)
    /\ \E k \in 1..Len(r_calls) :
          r_calls[k].kind = "page" /\ r_calls[k].outcome.t = "raise"

\* C9: every model call of a run that failed (it raised, or returned no
\* choices or no content), the look-ahead calls included, is followed by at
\* least one error or warning message before the next call is issued.
C9_EveryFailureShown ==
    \A k \in 1..Len(r_calls) :
        r_calls[k].outcome.t \in {"empty", "raise"} =>
            \E j \in 1..Len(r_msgs) :
                r_msgs[j].call = k /\ r_msgs[j].level \in {"error", "warning"}


\* the calls of the log that have not returned
PendingCalls == {k \in DOMAIN r_calls : r_calls[k].outcome = Pending}

\* C12: at most one model call is outstanding at any time: a look-ahead,
\* page, polish or batch call is issued only when every earlier call has
\* returned, and with both tasks ticked that holds across the summary run
\* and the translation run.
C12_OneOutstandingCall ==
    /\ r_in_flight <= 1
    /\ PendingCalls \subseteq {Len(r_calls)}
    /\ Cardinality(PendingCalls) <= r_in_flight

\* C12 witness: a page call of the translation run is outstanding, in per-page mode.
C12_Witness ==
    /\ r_task = "translation"
    /\ r_pc = "wait_page"
    /\ r_i > 0
    /\ r_in_flight = 1

\* the place in the call log of the call for page p
PageCallOf(p) == CHOOSE k \in DOMAIN r_calls : r_calls[k].kind = "page" /\ r_calls[k].page = p

\* what the call for page p returned to the loop
PageResult(p) == SingleValue(r_calls[PageCallOf(p)].outcome, "page", p)

\* C14: in per-page mode the call for page 1 gets an empty previous
\* context; the call for page i+1 gets extract_context_for_next_page of the
\* output of page i if page i succeeded and the empty string if it failed,
\* so the context holds text of page i only, never of an earlier page.
C14_ContextFromPreviousPage ==
    \A k \in DOMAIN r_calls :
        r_calls[k].kind = "page" =>
            LET p == r_calls[k].page
                context == r_calls[k].previous_context
                previous == PageResult(p - 1)
            IN  IF p = 1 THEN context = Empty
                ELSE /\ \E j \in 1..(k - 1) : r_calls[j].kind = "page" /\ r_calls[j].page = p - 1
                     /\ context = IF Truthy(previous) THEN ContextOf(previous) ELSE Empty
                     /\ context # Empty => context.page = p - 1

\* C14 witness: page 1 succeeded, page 2 failed, and the call for page 3 was
\* issued; and a call was issued with the context of the page before it.
C14_Witness ==
    /\ \E k \in DOMAIN r_calls : r_calls[k].kind = "page" /\ r_calls[k].page = 3
    /\ Truthy(PageResult(1))
    /\ ~Truthy(PageResult(2))
    /\ r_calls[PageCallOf(2)].previous_context = ContextOf(PageResult(1))

IsPolish(c) == c.kind = "polish"

\* the pages whose call has returned without a usable text
FailedPageCalls ==
    {k \in DOMAIN r_calls :
        /\ r_calls[k].kind = "page"
        /\ r_calls[k].outcome # Pending
        /\ ~Truthy(SingleValue(r_calls[k].outcome, "page", r_calls[k].page))}

\* C15: a run issues the polish call at most once, and only in per-page
\* mode (ticked, more than one page) over more than 2 pages whose
\* concatenated result is longer than 3000 characters with at most 30% of
\* the pages failed; a per-page run without a polish call returns the
\* concatenation, and its last model call is the call for the last page.
C15_PolishOnlyWhenWanted ==
    LET polish == SelectSeq(r_calls, IsPolish) IN
    /\ Len(polish) <= 1
    /\ polish # <<>> =>
          /\ r_args.process_separately /\ r_args.n > 1
          /\ r_args.n > 2
          /\ Len(r_results) = r_args.n
          /\ ConcatOf(r_results).len > 3000
          /\ 10 * Cardinality(FailedPageCalls) <= 3 * r_args.n
          /\ r_calls[Len(r_calls)].kind = "polish"
    /\ (r_pc = "done" /\ PerPageRun /\ polish = <<>>) =>
          /\ r_ret = ConcatOf(r_results)
          /\ r_calls[Len(r_calls)].kind = "page"
          /\ r_calls[Len(r_calls)].page = r_args.n

\* C15 witness: a per-page run over three pages ended without a polish
\* call although its concatenation is longer than 3000 characters: a page
\* had failed.
C15_Witness ==
    /\ r_pc = "done"
    /\ PerPageRun
    /\ r_args.n > 2
    /\ ConcatOf(r_results).len > 3000
    /\ Cardinality(FailedPageCalls) = 1
    /\ SelectSeq(r_calls, IsPolish) = <<>>
    /\ r_ret = ConcatOf(r_results)

\* the entry of page p in results: its text, or the placeholder of a failed page
PageEntry(p) == IF Truthy(PageResult(p)) THEN PageResult(p) ELSE Placeholder(p)

\* C16: when the polish call raises or returns no content, the run returns
\* the unpolished concatenation of the per-page results: the run has not
\* failed (its return value is a non-empty text) and every page's entry is
\* what it was before the polish call.
C16_PolishFailureKeepsConcat ==
    (/\ r_pc = "done"
     /\ r_calls # <<>>
     /\ LastCall.kind = "polish"
     /\ CallFailed(LastCall.outcome)) =>
        /\ r_ret = ConcatOf(r_results)
        /\ Truthy(r_ret)
        /\ Len(r_results) = r_args.n
        /\ \A p \in 1..r_args.n : r_results[p] = PageEntry(p)

\* C16 witness: a run has ended whose polish call raised.
C16_Witness ==
    /\ r_pc = "done"
    /\ r_calls # <<>>
    /\ LastCall.kind = "polish"
    /\ LastCall.outcome.t = "raise"
    /\ r_ret = ConcatOf(r_results)

\* C19: if every model call of an analysis run failed, nothing is stored:
\* the run returns nothing that main would put in analysis_results, so
\* analysis_results and last_analysis_done keep their values and no success
\* is reported; in batch mode and in per-page mode alike.
C19_NothingStoredWhenAllFail ==
    (/\ r_pc = "done"
     /\ r_calls # <<>>
     /\ \A k \in DOMAIN r_calls : CallFailed(r_calls[k].outcome)) =>
        ~MainStores(r_ret)

\* the pages whose entry in results is a failure placeholder
PlaceholderPages == {p \in DOMAIN r_results : r_results[p].src = "placeholder"}

\* C22: in per-page mode over N > 1 pages the list of results has one entry
\* for each page gone through, N of them when the loop has ended, in page
\* order: entry i is the output of the call for page i or the placeholder
\* naming page i; and the pages listed as failed are exactly the pages whose
\* entry is a placeholder.
C22_OneEntryPerPage ==
    (r_pc # "idle" /\ PerPageRun) =>
        /\ Len(r_results) = r_i
        /\ r_pc \in {"joined", "wait_polish", "done"} => Len(r_results) = r_args.n
        /\ \A p \in DOMAIN r_results :
              LET result == PageResult(p) IN
              /\ r_results[p].page = p
              /\ IF Truthy(result) THEN r_results[p] = result
                                   ELSE r_results[p] = Placeholder(p)
        /\ Range(r_failed_pages) = PlaceholderPages
        /\ Len(r_failed_pages) = Cardinality(PlaceholderPages)

\* C22 witness: the loop over three pages has ended; page 2 failed, pages
\* 1 and 3 have their outputs.
C22_Witness ==
    /\ r_pc = "joined"
    /\ r_args.n = 3
    /\ r_results[1].src = "page"
    /\ r_results[2] = Placeholder(2)
    /\ r_results[3].src = "page"
    /\ r_failed_pages = <<2>>

(***************************************************************************)
(* Claims about cleanup_temp_files (SpecCleanup).                          *)
(***************************************************************************)
\* C13: cleanup_temp_files never raises; a path whose deletion fails gives
\* one warning, and every path after it in the list is still gone through:
\* the call ends only with the whole list processed, and what is left on
\* disk under a listed path is a failed deletion with its warning or
\* something that is neither a file nor a directory.
C13_CleanupNeverRaises ==
    /\ c_pc # "raised"
    /\ \A w \in Range(c_warnings) : w[1] <= c_i
    /\ c_pc = "done" =>
          /\ c_i = Len(c_temp_paths)
          /\ \A k \in DOMAIN c_temp_paths :
                c_fs[c_temp_paths[k]] \in {"file", "dir"} =>
                    \E w \in Range(c_warnings) : c_temp_paths[w[1]] = c_temp_paths[k]

\* C13 witness: the deletion of the first of three paths failed and the call
\* went on to delete a later one.
C13_Witness ==
    /\ c_pc = "done"
    /\ Len(c_temp_paths) = 3
    /\ Len(c_warnings) = 1
    /\ c_warnings[1][1] = 1
    /\ c_fs[c_temp_paths[1]] \in {"file", "dir"}
    /\ c_fs[c_temp_paths[3]] = "missing"
    /\ c_temp_paths[3] # c_temp_paths[1]

(***************************************************************************)
(* Claims about the session (Spec).                                        *)
(***************************************************************************)
\* C1: every index used to read images or base64_images in the preview, the
\* analysis selection and the result display lies in 0 .. page count - 1,
\* in every selection mode and whatever page_number, start_page and end_page
\* an earlier, longer document left behind.
C1_IndicesWithinDocument ==
    /\ Len(ss_base64_images) = Len(ss_images)
    /\ \A i \in m_reads : 0 <= i /\ i < Len(ss_images)

\* C1 witness: the result display ran in single-page mode over a document
\* shorter than the page_number left in the session.
C1_Witness ==
    /\ "display" \in m_parts
    /\ m_mode = "single"
    /\ Len(ss_images) > 0
    /\ ss_page_number > Len(ss_images)

\* C7: after every analysis run (a click of the analysis button with a
\* non-empty page selection) analysis_results holds exactly the sections
\* that run produced; no text of an earlier run remains.
C7_ResultsOverwritten ==
    (m_pc = "results" /\ m_ran) => ss_analysis_results = m_results

\* the paths of the events of one kind in the log, and of those after place k
PathsOf(log, op) == UNION {Range(log[k].paths) : k \in {j \in DOMAIN log : log[j].op = op}}
PathsAfter(log, k, op) ==
    UNION {Range(log[j].paths) : j \in {j \in DOMAIN log : j > k /\ log[j].op = op}}

\* C11: at the end of a rerun every temporary export file made during it
\* has been handed to cleanup_temp_files, whether its export function
\* returned True or False.
C11_ExportFilesCleaned ==
    m_pc = "end" =>
        \A k \in DOMAIN m_log :
            m_log[k].op = "create" =>
                Range(m_log[k].paths) \subseteq PathsAfter(m_log, k, "cleanup")

\* the step of a rerun that reads the uploader, with a file in it
ReadsFile == m_pc = "sidebar" /\ m_pc' # "sidebar" /\ m_pdf_file' # NoFile

\* C17: on a rerun whose uploaded PDF has a hash other than last_file_hash,
\* in this order every path of temp_files is handed over for deletion, the
\* new document is converted, temp_files becomes exactly the new list of
\* image paths, and analysis_results / last_analysis_done are reset to
\* empty / false.  On a rerun whose file has the hash last_file_hash none of
\* this happens.  So no path handed over for deletion is an image of the
\* current document.
C17_FileChangeInOrder ==
    /\ [][ (ReadsFile /\ Hash(m_pdf_file') # ss_last_file_hash) =>
              /\ m_log' = << [op |-> "cleanup", paths |-> ss_temp_files],
                             [op |-> "convert", paths |-> ss_images'],
                             [op |-> "temp_files", paths |-> ss_temp_files'],
                             [op |-> "reset", paths |-> <<>>] >>
              /\ ss_temp_files' = ss_images'
              /\ ss_last_file_hash' = Hash(m_pdf_file')
              /\ ss_analysis_results' = NoSections
              /\ ss_last_analysis_done' = FALSE ]_vars
    /\ [][ (ReadsFile /\ Hash(m_pdf_file') = ss_last_file_hash) =>
              /\ m_log' = <<>>
              /\ UNCHANGED <<docVars, resultVars>> ]_vars
    /\ [](PathsOf(m_log, "cleanup") \cap Range(ss_images) = {})

\* C17 witness: a rerun has replaced a converted document by another: the
\* images of the old one were handed over and temp_files holds the new ones.
C17_Witness ==
    /\ m_log # <<>>
    /\ m_log[1].op = "cleanup"
    /\ m_log[1].paths # <<>>
    /\ Len(ss_images) > 0
    /\ ss_temp_files = ss_images
    /\ Range(m_log[1].paths) \cap Range(ss_images) = {}

\* C20: at the end of every rerun last_analysis_done is true if and only if
\* analysis_results is not empty: initialisation, a change of the uploaded
\* file, an analysis run and the clear button keep the two consistent.
C20_DoneIffResults ==
    m_pc \in {"idle", "end"} =>
        (ss_last_analysis_done <=> ~IsEmptyDict(ss_analysis_results))

\* C20 witness: a rerun ends in which the analysis ran and produced nothing,
\* with no earlier results in the session.
C20_Witness ==
    /\ m_pc = "end"
    /\ m_ran
    /\ IsEmptyDict(m_results)
    /\ IsEmptyDict(ss_analysis_results)
    /\ ~ss_last_analysis_done

\* the step of a rerun that reads the key field
ReadsKey == m_pc = "idle" /\ m_pc' = "sidebar"

\* C21: api_key_validated is true if and only if client is not None; the
\* analysis, and with it every chat-completion call, runs only in a rerun
\* whose api_key_validated is true; and a rerun whose key field still holds
\* the key that was validated does not validate it again.
C21_ValidatedIffClient ==
    /\ [](ss_api_key_validated <=> ss_client # None)
    /\ []((m_clicked \/ m_ran) => (ss_api_key_validated /\ ss_client # None))
    /\ [][ (ReadsKey /\ ss_api_key_validated /\ m_openai_api_key' = ss_last_api_key) =>
              (m_validation' = "not_called" /\ UNCHANGED keyVars) ]_vars

\* C21 witness: a rerun read from the key field the key validated by an
\* earlier rerun and did not call the validation.
C21_Witness ==
    /\ m_pc = "sidebar"
    /\ ss_api_key_validated
    /\ m_openai_api_key = ss_last_api_key
    /\ m_openai_api_key \in Keys
    /\ m_validation = "not_called"

(***************************************************************************)
(* The specifications.                                                     *)
(***************************************************************************)
TextInit == TextStart /\ ExportIdle /\ ErrIdle /\ RunIdle /\ SessionInit /\ MainIdle /\ CleanupIdle
SpecText == TextInit /\ [][TextNext]_vars

ExportInit == ExportStart /\ TextIdle /\ ErrIdle /\ RunIdle /\ SessionInit /\ MainIdle /\ CleanupIdle
SpecExport == ExportInit /\ [][ExportNext]_vars

ErrInit == ErrStart /\ TextIdle /\ ExportIdle /\ RunIdle /\ SessionInit /\ MainIdle /\ CleanupIdle
SpecErr == ErrInit /\ [][ErrNext]_vars

RunInit == RunIdle /\ TextIdle /\ ExportIdle /\ ErrIdle /\ SessionInit /\ MainIdle /\ CleanupIdle
SpecRun == RunInit /\ [][RunNext]_vars

CleanupInit == CleanupStart /\ TextIdle /\ ExportIdle /\ ErrIdle /\ RunIdle /\ SessionInit /\ MainIdle
SpecCleanup == CleanupInit /\ [][CleanupNext]_vars

Init == SessionInit /\ MainIdle /\ TextIdle /\ ExportIdle /\ ErrIdle /\ RunIdle /\ CleanupIdle
Next == SessionNext
Spec == Init /\ [][Next]_vars

====
